---- MODULE Spec2Model ----
(***************************************************************************)
(* Missing-tag identification: the physical-layer simulation kernel        *)
(* (framework.py, run_high_fidelity_simulation) driving the adaptive       *)
(* collision-resolution protocol (lods_mti_algo.py, LODS_MTI_Algorithm).   *)
(*                                                                         *)
(* Representation.  A tag is named by the integer value of its EPC; its    *)
(* 'bin' string is the MSB-first bit sequence Bin(v) of fixed width.       *)
(* A Python int used as a bitmap (noise mask, superimposed reply) is the   *)
(* finite set of its set bit positions: | is union, & is intersection,     *)
(* ^ is symmetric difference and bin(x).count('1') is the cardinality.     *)
(* Probabilities are percentages; a draw random.random() < p is a          *)
(* nondeterministic choice that can succeed only when p > 0.               *)
(***************************************************************************)
EXTENDS Integers, Sequences, FiniteSets, TLC

\* ---------------------------------------------------------------- bounds
\* Largest EPC value of a generated tag (the source uses 96-bit EPCs).
MaxEpcInt == 7
\* Largest expected population of a run over an impaired channel.
MaxTags == 3
\* Largest expected population of a run over the default channel.
MaxCleanTags == 4
\* Most bits one slot's random bit-error draws flip.
MaxFlips == 2
\* Slot-count ceiling of the kernel (200000 in the source, scaled down).
MAX_SLOTS_LIMIT == 4
\* Largest expected population of a run with bit errors or capture.
MaxNoisyTags == 2
\* Most get_next_command calls in an engine-only run.
MaxCalls == 4
\* Largest expected population of an engine that is initialized again.
MaxReinitTags == 1

\* ------------------------------------------------------ program constants
\* Seeds tried by _find_perfect_seed: range(16).
SEED_SPACE == 16
\* Reply-length ceiling under stress: min(128, max_payload_bit).
STRESS_REPLY_BITS == 128
\* error_rate <= 0.3, as the ratio TOLERANCE_NUM / TOLERANCE_DEN.
TOLERANCE_NUM == 3
TOLERANCE_DEN == 10
\* The two redundancy widths of the adaptive controller.
RHO_FAST == 2
RHO_ROBUST == 4

NoneVal == "None"
\* None where the other values are ints (a seed, an EPC).
NoSeed == -1
NoWinner == -1

\* ------------------------------------------------------------ bit helpers
RECURSIVE BitLength(_)
BitLength(n) == IF n = 0 THEN 0 ELSE 1 + BitLength(n \div 2)

\* Width of the 'bin' strings: zfill(96) in the source, here the width of
\* the largest EPC value.
EPC_BITS == IF MaxEpcInt = 0 THEN 1 ELSE BitLength(MaxEpcInt)

RECURSIVE Pow2(_)
Pow2(n) == IF n = 0 THEN 1 ELSE 2 * Pow2(n - 1)

\* bin(int(epc, 16))[2:].zfill(96): the MSB-first bit string of the EPC.
BinOf(v) == [i \in 1..EPC_BITS |-> (v \div Pow2(EPC_BITS - i)) % 2]
BinTable == [v \in 0..MaxEpcInt |-> BinOf(v)]
Bin(v) == BinTable[v]

\* Python's a ^ b on non-negative ints.
RECURSIVE XorOf(_, _)
XorOf(a, b) ==
    IF a = 0 THEN b
    ELSE IF b = 0 THEN a
    ELSE (((a % 2) + (b % 2)) % 2) + (2 * XorOf(a \div 2, b \div 2))

\* val ^ seed, tabulated over the EPC values and the seeds.
XorTable == [a \in 0..MaxEpcInt |-> [b \in 0..(SEED_SPACE - 1) |-> XorOf(a, b)]]
Xor(a, b) == XorTable[a][b]

\* x ^ y on bitmaps.
SymDiff(A, B) == (A \ B) \cup (B \ A)

Min(a, b) == IF a <= b THEN a ELSE b
Max(a, b) == IF a >= b THEN a ELSE b

\* Python's str ordering on the fixed-width 'bin' strings.
RECURSIVE LexLess(_, _)
LexLess(s, t) ==
    IF s = <<>> \/ t = <<>> THEN s = <<>> /\ t # <<>>
    ELSE IF Head(s) # Head(t) THEN Head(s) < Head(t)
    ELSE LexLess(Tail(s), Tail(t))

\* sorted(temp_list, key=lambda x: x['bin']) over distinct EPCs.
RECURSIVE SortByBin(_)
SortByBin(S) ==
    IF S = {} THEN <<>>
    ELSE LET m == CHOOSE x \in S : \A y \in S \ {x} : LexLess(Bin(x), Bin(y))
         IN  <<m>> \o SortByBin(S \ {m})

\* str.startswith
StartsWith(s, p) == Len(p) <= Len(s) /\ SubSeq(s, 1, Len(p)) = p

\* ---------------------------------------------------------------- state
VARIABLES
    \* LODS_MTI_Algorithm
    params,             \* constructor arguments
    sorted_tags_bin,    \* expected EPCs in 'bin' order
    cursor,
    is_running,
    current_rho,
    last_sent_context,  \* sequence of [epc, slot, rho]
    verified_present,
    verified_missing,
    \* run_high_fidelity_simulation
    config,             \* SimulationConfig
    present_tags,       \* EPCs of the true tags with is_present
    rssi_map,
    total_slots,
    idle_slots,
    success_slots,
    collision_slots,
    total_time_us,      \* in half microseconds
    total_reader_energy_j, \* in half microjoules
    prev_result,        \* SlotResult handed to the next call
    pc,                 \* "loop", "returned" or "raised"
    breaker,            \* the slot-ceiling branch was taken
    \* the protocol under the kernel
    algorithm,          \* "LODS" or "ANY" (some other AlgorithmInterface)
    any_finished,
    any_results,
    \* history
    cmd,                \* the last ReaderCommand returned
    calls,              \* get_next_command calls since initialize
    group,              \* final_k, final_mask, ... of the last scheduling step
    verified_group,     \* what the last verification read
    reinitialized,      \* the state initialize was last called again in
    \* a run and its repetition
    draws,              \* random draws: made (first run), still to make (second)
    trace,              \* commands and slot results of the current run
    first_run,          \* what the first run did and returned
    \* _find_perfect_seed called on its own
    seed_call           \* its arguments and, once it returned, its result

engine_vars == <<params, sorted_tags_bin, cursor, is_running, current_rho,
                 last_sent_context, verified_present, verified_missing>>
kernel_vars == <<config, present_tags, rssi_map, total_slots, idle_slots,
                 success_slots, collision_slots, total_time_us,
                 total_reader_energy_j, prev_result, pc, breaker>>
any_vars == <<any_finished, any_results>>
hist_vars == <<cmd, calls, group, verified_group, reinitialized>>
replay_vars == <<draws, trace, first_run>>
vars == <<engine_vars, kernel_vars, algorithm, any_vars, hist_vars, replay_vars,
          seed_call>>

total_tags == Len(sorted_tags_bin)
expected_tags == {sorted_tags_bin[i] : i \in 1..Len(sorted_tags_bin)}

\* ------------------------------------------ LODS_MTI_Algorithm, pure parts
\* Fault injection: a prefix step that returns its first argument whole.
WholeFirst(str1, str2) == str1

\* _get_lcp
GetLcp(str1, str2) ==
    LET l == Min(Len(str1), Len(str2))
        differ == {i \in 1..l : str1[i] # str2[i]}
    IN  IF differ = {} THEN SubSeq(str1, 1, l)
        ELSE SubSeq(str1, 1, (CHOOSE i \in differ : \A j \in differ : i <= j) - 1)

\* 'bin' of the tag at 0-based index idx of sorted_tags_bin.
BinAt(tags, idx) == Bin(tags[idx + 1])

\* The for-loop of _find_dynamic_slice, from k down to 1.
RECURSIVE SliceLoop(_, _, _)
SliceLoop(tags, start_idx, k) ==
    IF k = 0 THEN [k |-> 1, mask |-> BinAt(tags, start_idx)]
    ELSE LET current_lcp == GetLcp(BinAt(tags, start_idx),
                                   BinAt(tags, start_idx + k - 1))
             tag_outside == BinAt(tags, start_idx + k)
         IN  IF StartsWith(tag_outside, current_lcp)
             THEN SliceLoop(tags, start_idx, k - 1)
             ELSE [k |-> k, mask |-> current_lcp]

\* Fault injection: a slicing step that never groups more than one tag.
SliceOfOne(tags, max_group_size, start_idx, limit_k_override) ==
    [k |-> 1, mask |-> BinAt(tags, start_idx)]

\* _find_dynamic_slice(start_idx, limit_k_override)
FindDynamicSlice(tags, max_group_size, start_idx, limit_k_override) ==
    LET remaining == Len(tags) - start_idx
        limit_k == Min(Min(max_group_size, remaining), limit_k_override)
    IN  IF remaining = 0 THEN [k |-> 0, mask |-> <<>>]
        ELSE IF start_idx + limit_k >= Len(tags)
        THEN [k |-> limit_k,
              mask |-> GetLcp(BinAt(tags, start_idx),
                              BinAt(tags, start_idx + limit_k - 1))]
        ELSE SliceLoop(tags, start_idx, limit_k)

\* Fault injection: a sub-slot taken from the value shifted by the seed.
SubSlotByShift(val, seed, mod_size) == (val \div (seed + 1)) % mod_size

\* The sub-slot of one tag under a seed.
SubSlot(val, seed, mod_size) == Xor(val, seed) % mod_size

\* Fault injection: a collision test that also compares a tag with itself.
SeedSelfCompared(epc_ints, seed, mod_size) ==
    \A i, j \in 1..Len(epc_ints) :
        i # j /\ SubSlot(epc_ints[i], seed, mod_size)
                   # SubSlot(epc_ints[j], seed, mod_size)

\* No two of epc_ints share a sub-slot under seed.
SeedIsPerfect(epc_ints, seed, mod_size) ==
    \A i, j \in 1..Len(epc_ints) :
        i # j => SubSlot(epc_ints[i], seed, mod_size)
                   # SubSlot(epc_ints[j], seed, mod_size)

\* Fault injection: a seed search that settles on seed 0 without looking.
SeedUnchecked(epc_ints, mod_size) == 0

\* The for-loop of _find_perfect_seed, from seed upwards.
RECURSIVE SeedLoop(_, _, _)
SeedLoop(epc_ints, mod_size, seed) ==
    IF seed >= SEED_SPACE THEN NoSeed
    ELSE IF SeedIsPerfect(epc_ints, seed, mod_size) THEN seed
    ELSE SeedLoop(epc_ints, mod_size, seed + 1)

\* _find_perfect_seed: the first seed of range(16) that is perfect, or None.
FindPerfectSeed(epc_ints, mod_size) == SeedLoop(epc_ints, mod_size, 0)

\* Bits of the rho-wide sub-field of sub-slot slot.
FieldBits(slot, rho) == (slot * rho)..((slot * rho) + rho - 1)

\* Fault injection: a vote that needs every bit of the sub-field.
VoteUnanimous(last_rho) == last_rho

\* vote_threshold = 3 if last_rho >= 4 else last_rho
VoteThreshold(last_rho) == IF last_rho >= 4 THEN 3 ELSE last_rho

\* ------------------------------------------- get_next_command, Phase 1
\* Fault injection: an engine that takes the decoded tags for the responders.
ResolvedResponders(r) == IF r.status = "IDLE" THEN {} ELSE r.resolved_data

\* actual_responders_set
ActualResponders(r) == IF r.status = "IDLE" THEN {} ELSE r.tag_ids

\* ideal_superimposed_bitmap: the fields of the context's tags that answered.
IdealBitmap(ctx, responders) ==
    UNION {FieldBits(ctx[i].slot, ctx[i].rho) :
             i \in {j \in DOMAIN ctx : ctx[j].epc \in responders}}

\* received_bitmap = ideal_superimposed_bitmap ^ channel_noise_mask
ReceivedBitmap(ctx, r) ==
    SymDiff(IdealBitmap(ctx, ActualResponders(r)), r.channel_noise_mask)

\* match_count of one context item
MatchCount(item, received) ==
    Cardinality(received \cap FieldBits(item.slot, item.rho))

\* Indices of the context items with match_count >= vote_threshold.
VotedPresent(ctx, received) ==
    {i \in DOMAIN ctx :
       MatchCount(ctx[i], received) >= VoteThreshold(ctx[1].rho)}

\* Fault injection: a verification that records no tag / every tag.
NoneOfContext(ctx, voted) == {}
AllOfContext(ctx, voted) == {ctx[i].epc : i \in DOMAIN ctx}

\* EPCs added to verified_present / verified_missing by the verification.
NewPresent(ctx, voted) == {ctx[i].epc : i \in voted}
NewMissing(ctx, voted) == {ctx[i].epc : i \in DOMAIN ctx \ voted}

\* Fault injection: a result set that is replaced by the verdicts of the
\* last group.
ReplacedBy(verified, epcs) == epcs

\* verified_present.add / verified_missing.add over one group's verdicts.
AddAll(verified, epcs) == verified \cup epcs

\* error_cnt: items voted missing, or voted present with match_count < rho.
ErrorCnt(ctx, received, voted) ==
    Cardinality({i \in DOMAIN ctx :
                   \/ i \notin voted
                   \/ MatchCount(ctx[i], received) < ctx[i].rho})

\* error_flag: some item voted present with match_count < rho.
ErrorFlag(ctx, received, voted) ==
    \E i \in voted : MatchCount(ctx[i], received) < ctx[i].rho

\* Fault injection: a controller that tolerates no imperfect tag at all.
ZeroTolerance(error_cnt, total_checks) == error_cnt = 0

\* error_rate <= 0.3 (error_cnt / total_checks with total_checks <= 128 is
\* never within rounding distance of 0.3 unless it equals 3/10).
WithinTolerance(error_cnt, total_checks) ==
    error_cnt * TOLERANCE_DEN <= TOLERANCE_NUM * total_checks

\* Fault injection: a controller that settles between the two widths.
InterpolatedRho(is_adaptive, rho, error_cnt, total_checks) ==
    IF is_adaptive /\ total_checks > 0
    THEN (RHO_FAST + RHO_ROBUST) \div 2
    ELSE rho

\* current_rho after the adaptation step.
AdaptedRho(is_adaptive, rho, error_cnt, total_checks) ==
    IF is_adaptive /\ total_checks > 0
    THEN IF WithinTolerance(error_cnt, total_checks) THEN RHO_FAST ELSE RHO_ROBUST
    ELSE rho

\* History: for each item of the verified context, whether its tag was among
\* the responders, how many noise bits fell into its sub-field and its
\* match_count.
VerificationRecord(ctx, r) ==
    [i \in DOMAIN ctx |->
        [epc |-> ctx[i].epc, rho |-> ctx[i].rho,
         responded |-> ctx[i].epc \in ActualResponders(r),
         flips |-> Cardinality(r.channel_noise_mask
                                 \cap FieldBits(ctx[i].slot, ctx[i].rho)),
         match_count |-> MatchCount(ctx[i], ReceivedBitmap(ctx, r))]]

\* ------------------------------------------- get_next_command, Phase 3
\* MAX_REPLY_BITS
ReplyCeiling(max_payload_bit, active_rho, error_flag) ==
    IF active_rho >= 4 /\ error_flag
    THEN Min(STRESS_REPLY_BITS, max_payload_bit)
    ELSE max_payload_bit

EmptyGroup ==
    [k |-> 0, mask |-> <<>>, seed |-> 0, reply_bits |-> 0, num_slots |-> 0,
     ceiling |-> 0]

\* The while-loop: slice, look for a seed, shrink by one when none resolves.
RECURSIVE SearchGroup(_, _, _, _, _, _)
SearchGroup(tags, max_group_size, cur, active_rho, ceiling, current_limit_k) ==
    IF current_limit_k <= 0 THEN [EmptyGroup EXCEPT !.ceiling = ceiling]
    ELSE LET sl == FindDynamicSlice(tags, max_group_size, cur, current_limit_k)
             desired_len == sl.k * active_rho
             reply_bits == Max(4, Min(desired_len, ceiling))
             num_logical_slots == Max(1, reply_bits \div active_rho)
             epc_ints == [i \in 1..sl.k |-> tags[cur + i]]
             seed == FindPerfectSeed(epc_ints, num_logical_slots)
         IN  IF seed # NoSeed
             THEN [k |-> sl.k, mask |-> sl.mask, seed |-> seed,
                   reply_bits |-> reply_bits, num_slots |-> num_logical_slots,
                   ceiling |-> ceiling]
             ELSE SearchGroup(tags, max_group_size, cur, active_rho, ceiling,
                              sl.k - 1)

\* final_k, final_mask, final_seed, final_reply_bits, final_num_slots, and
\* the MAX_REPLY_BITS they were found under
ScheduleGroup(tags, p, cur, active_rho, error_flag) ==
    LET ceiling == ReplyCeiling(p.max_payload_bit, active_rho, error_flag)
        max_phys_k == ceiling \div active_rho
        current_limit_k == Min(Min(p.max_group_size, max_phys_k), Len(tags) - cur)
    IN  SearchGroup(tags, p.max_group_size, cur, active_rho, ceiling,
                    current_limit_k)

\* Fault injection: a context that forgets the last tag of the group.
ContextWithoutLast(tags, cur, g, active_rho) ==
    [i \in 1..(g.k - 1) |-> [epc  |-> tags[cur + i],
                             slot |-> SubSlot(tags[cur + i], g.seed, g.num_slots),
                             rho  |-> active_rho]]

\* current_context
BuildContext(tags, cur, g, active_rho) ==
    [i \in 1..g.k |-> [epc  |-> tags[cur + i],
                       slot |-> SubSlot(tags[cur + i], g.seed, g.num_slots),
                       rho  |-> active_rho]]

\* payload_cost
PayloadCost(mask) ==
    LET base_len == Len(mask) + 4 + 4
        crc_len == IF base_len < 32 THEN 5 ELSE 16
    IN  base_len + crc_len

\* protocol_logic, as the set of EPCs it accepts.
PrefixMatches(mask) == {v \in 0..MaxEpcInt : StartsWith(Bin(v), mask)}

\* ReaderCommand(payload_bits=-1, expected_reply_bits=0)
SentinelCommand ==
    [payload_bits |-> -1, expected_reply_bits |-> 0,
     response_protocol |-> {}, concatenated_tags_count |-> 1]

\* Fault injection: a command that declares one reply bit per sub-slot.
CommandOfOneBitSlots(g) ==
    [payload_bits |-> PayloadCost(g.mask), expected_reply_bits |-> g.num_slots,
     response_protocol |-> PrefixMatches(g.mask), concatenated_tags_count |-> 1]

GroupCommand(g) ==
    [payload_bits |-> PayloadCost(g.mask), expected_reply_bits |-> g.reply_bits,
     response_protocol |-> PrefixMatches(g.mask), concatenated_tags_count |-> 1]

\* ------------------------------------------------ LODS_MTI_Algorithm
\* get_next_command(prev_result)
GetNextCommand(r) ==
    LET ctx == last_sent_context
        verifying == ctx # <<>>
        received == ReceivedBitmap(ctx, r)
        voted == VotedPresent(ctx, received)
        error_flag == verifying /\ ErrorFlag(ctx, received, voted)
        active_rho == IF verifying
                      THEN AdaptedRho(params.is_adaptive, current_rho,
                                      ErrorCnt(ctx, received, voted), Len(ctx))
                      ELSE current_rho
        g == ScheduleGroup(sorted_tags_bin, params, cursor, active_rho, error_flag)
    IN  /\ verified_present' =
              IF verifying THEN AddAll(verified_present, NewPresent(ctx, voted))
              ELSE verified_present
        /\ verified_missing' =
              IF verifying THEN AddAll(verified_missing, NewMissing(ctx, voted))
              ELSE verified_missing
        /\ current_rho' = active_rho
        /\ verified_group' =
              IF verifying THEN VerificationRecord(ctx, r) ELSE verified_group
        /\ IF cursor >= total_tags
           THEN /\ is_running' = FALSE
                /\ last_sent_context' = <<>>
                /\ cmd' = SentinelCommand
                /\ UNCHANGED <<cursor, group>>
           ELSE /\ last_sent_context' =
                      BuildContext(sorted_tags_bin, cursor, g, active_rho)
                /\ cursor' = cursor + g.k
                /\ cmd' = GroupCommand(g)
                /\ group' = g
                /\ UNCHANGED is_running
        /\ calls' = calls + 1
        /\ UNCHANGED <<params, sorted_tags_bin, reinitialized>>

\* is_finished()
IsFinished == ~is_running

\* initialize(expected_tags): the engine's fields right after it, for
\* constructor arguments p and the distinct EPCs S.
Initialized(p, S) ==
    /\ params = p
    /\ sorted_tags_bin = SortByBin(S)
    /\ cursor = 0
    /\ is_running = TRUE
    /\ verified_present = {}
    /\ verified_missing = {}
    /\ last_sent_context = <<>>
    /\ current_rho = IF p.is_adaptive THEN RHO_ROBUST ELSE p.target_rho

\* Fault injection: an initialize that leaves the redundancy as it is.
KeepRho(p, rho) == rho

\* current_rho as initialize sets it.
ResetRho(p, rho) == IF p.is_adaptive THEN RHO_ROBUST ELSE p.target_rho

\* initialize(expected_tags) on an engine in any state, S the distinct EPCs.
\* The history restarts with it.
Initialize(S) ==
    /\ sorted_tags_bin' = SortByBin(S)
    /\ cursor' = 0
    /\ is_running' = TRUE
    /\ verified_present' = {}
    /\ verified_missing' = {}
    /\ last_sent_context' = <<>>
    /\ current_rho' = ResetRho(params, current_rho)
    /\ UNCHANGED params
    /\ cmd' = SentinelCommand
    /\ calls' = 0
    /\ group' = EmptyGroup
    /\ verified_group' = <<>>
    /\ reinitialized' =
          [from |-> IF ~is_running THEN "finished"
                    ELSE IF last_sent_context # <<>> THEN "pending"
                    ELSE "idle",
           rho |-> current_rho]

\* --------------------------------------- some other AlgorithmInterface
\* What the kernel can observe of any other protocol: each call returns the
\* sentinel or a command with some predicate and reply length, the protocol
\* may report finished afterwards, and its result sets are what they are.
AnyReplyBits == {0, 4}

AnyResults ==
    { [present |-> {}, missing |-> {}],
      [present |-> expected_tags \cap present_tags,
       missing |-> expected_tags \ present_tags],
      [present |-> expected_tags, missing |-> expected_tags] }

AnyGetNextCommand(r) ==
    /\ \E fin \in BOOLEAN, res \in AnyResults :
          /\ any_finished' = fin
          /\ any_results' = IF fin THEN res ELSE any_results
    /\ \E stop \in BOOLEAN, resp \in SUBSET expected_tags, bits \in AnyReplyBits :
          cmd' = IF stop THEN SentinelCommand
                 ELSE [payload_bits |-> 22, expected_reply_bits |-> bits,
                       response_protocol |-> resp, concatenated_tags_count |-> 1]
    /\ calls' = calls + 1
    /\ UNCHANGED <<group, verified_group, reinitialized>>

\* ----------------------------------------- run_high_fidelity_simulation
\* algorithm.is_finished()
Finished == IF algorithm = "LODS" THEN IsFinished ELSE any_finished

\* algorithm.get_results()
Results ==
    IF algorithm = "LODS"
    THEN [present |-> verified_present, missing |-> verified_missing]
    ELSE any_results

\* cmd = algorithm.get_next_command(prev_result)
ProtocolCall(r) ==
    IF algorithm = "LODS"
    THEN GetNextCommand(r) /\ UNCHANGED any_vars
    ELSE AnyGetNextCommand(r) /\ UNCHANGED engine_vars

\* SlotResult(PacketType.IDLE, [])
IdleResult ==
    [status |-> "IDLE", tag_ids |-> {}, resolved_data |-> {},
     channel_noise_mask |-> {}, extra_info |-> NoneVal]

\* Fault injection: a kernel in which no responder ever captures the slot.
NeverCaptured(responding) == NoWinner

\* The capture winner of a multi-responder slot, or None.  The strongest
\* responder is unique whenever the margin test passes (CAPTURE_RATIO_DB > 0).
CaptureWinner(responding) ==
    IF config.ENABLE_CAPTURE_EFFECT /\ Cardinality(responding) >= 2
    THEN LET first == CHOOSE e \in responding :
                         \A f \in responding : rssi_map[e] >= rssi_map[f]
             rest == responding \ {first}
             second == CHOOSE e \in rest : \A f \in rest : rssi_map[e] >= rssi_map[f]
         IN  IF rssi_map[first] - rssi_map[second] >= config.CAPTURE_RATIO_DB
             THEN first ELSE NoWinner
    ELSE NoWinner

\* Fault injection: a kernel that takes an unanswered slot for a reply.
StatusNeverIdle(responding) ==
    IF Cardinality(responding) <= 1 THEN "SUCCESS" ELSE "COLLISION"

\* Fault injection: a kernel that takes any reply for a decodable one.
StatusWithoutCollision(responding) ==
    IF responding = {} THEN "IDLE" ELSE "SUCCESS"

\* D.1: status before impairments.
BaseStatus(responding) ==
    IF Cardinality(responding) = 0 THEN "IDLE"
    ELSE IF Cardinality(responding) = 1 THEN "SUCCESS"
    ELSE IF CaptureWinner(responding) # NoWinner THEN "SUCCESS"
    ELSE "COLLISION"

\* resolved_data before impairments.
BaseResolved(responding) ==
    IF Cardinality(responding) = 1 THEN responding
    ELSE IF Cardinality(responding) >= 2 /\ CaptureWinner(responding) # NoWinner
    THEN {CaptureWinner(responding)}
    ELSE {}

\* Fault injection: a capture that counts the success and keeps the collision.
CollisionKeptOnCapture(responding) ==
    IF Cardinality(responding) >= 2 THEN 1 ELSE 0

\* What D.1 adds to collision_slots: collision_slots += 1, and
\* collision_slots -= 1 when a winner captures the slot.
CollisionCount(responding) ==
    IF Cardinality(responding) >= 2
    THEN 1 - (IF CaptureWinner(responding) # NoWinner THEN 1 ELSE 0)
    ELSE 0

\* Fault injection: a coherence limit that is rounded up.
SafeBitsRoundedUp(drift_rate) == (500 + drift_rate - 1) \div drift_rate

\* max_safe_bits = int(0.5 / CLOCK_DRIFT_RATE), the rate in thousandths.
MaxSafeBits(drift_rate) == 500 \div drift_rate

\* Fault injection: a kernel whose clock never drifts.
NoDrift(expected_len) == {}

\* Bits set by the clock-drift loop.
DriftBits(expected_len) ==
    IF config.CLOCK_DRIFT_RATE > 0
    THEN {i \in 0..(expected_len - 1) : i >= MaxSafeBits(config.CLOCK_DRIFT_RATE)}
    ELSE {}

\* Outcomes of the packet-loss draw.
LossDraws ==
    IF config.ENABLE_NOISE /\ config.packet_error_rate > 0
    THEN IF config.packet_error_rate >= 100 THEN {TRUE} ELSE {TRUE, FALSE}
    ELSE {FALSE}

\* Fault injection: bit errors that land just past the declared reply.
FlipsPastReply(expected_len) == {{expected_len}}

\* Outcomes of the per-bit error draws over a reply of expected_len bits.
FlipDraws(expected_len) ==
    IF config.ENABLE_NOISE /\ config.BIT_ERROR_RATE > 0
    THEN {F \in SUBSET (0..(expected_len - 1)) : Cardinality(F) <= MaxFlips}
    ELSE {{}}

\* The burst-erasure / jitter block is entered.
StructuralDamage == config.BURST_ERASURE_LEN > 0 \/ config.JITTER_OFFSET > 0

\* Fault injection: a breaker that lets one more slot through.
OverLimitByTwo(slots) == slots > MAX_SLOTS_LIMIT + 1

\* if total_slots > CONSTANTS['MAX_SLOTS_LIMIT']
OverLimit(slots) == slots > MAX_SLOTS_LIMIT

\* while not algorithm.is_finished(): the condition is false.
KernelExit ==
    /\ pc = "loop"
    /\ Finished
    /\ pc' = "returned"
    /\ UNCHANGED <<engine_vars, config, present_tags, rssi_map, total_slots,
                   idle_slots, success_slots, collision_slots, total_time_us,
                   total_reader_energy_j, prev_result,
                   breaker, algorithm, any_vars, hist_vars, replay_vars,
                   seed_call>>

\* if total_slots > MAX_SLOTS_LIMIT: print the warning and break.
KernelBreaker ==
    /\ pc = "loop"
    /\ ~Finished
    /\ OverLimit(total_slots)
    /\ breaker' = TRUE
    /\ pc' = "returned"
    /\ UNCHANGED <<engine_vars, config, present_tags, rssi_map, total_slots,
                   idle_slots, success_slots, collision_slots, total_time_us,
                   total_reader_energy_j, prev_result,
                   algorithm, any_vars, hist_vars, replay_vars, seed_call>>

\* CONSTANTS of the physical layer.  Times are in half microseconds, so that
\* a reader bit (12.5 us at READER_RATE 80000) is a whole number.
T_PREAMBLE == 600
T1 == 480
T2 == 240
READER_BIT_TIME == 25
TAG_BIT_TIME == 50
ACK_BITS == 18
P_TX_READER == 1

\* t_reader_tx = T_PREAMBLE + (cmd.payload_bits / READER_RATE) * 1e6
ReaderTxTime(c) == T_PREAMBLE + c.payload_bits * READER_BIT_TIME

\* _calc_dynamic_reply_time(bits_count)
CalcDynamicReplyTime(bits_count) ==
    (bits_count * TAG_BIT_TIME)
    + IF bits_count <= 20 THEN T1 + T2
      ELSE (3 * T1) + (2 * T2) + (ACK_BITS * READER_BIT_TIME)

\* step_duration of a slot whose final status is status.
StepDuration(status, c) ==
    IF status = "IDLE" THEN T1
    ELSE CalcDynamicReplyTime(c.expected_reply_bits)
         + IF c.concatenated_tags_count > 1 /\ config.GUARD_INTERVAL_BITS > 0
           THEN (c.concatenated_tags_count - 1) * config.GUARD_INTERVAL_BITS
                * TAG_BIT_TIME
           ELSE 0

\* The outcomes of the random draws of the iteration that issued cmd': the
\* packet-loss draw, and the per-bit error draws where the code makes them.
SlotDraws ==
    LET responding == present_tags \cap cmd'.response_protocol
        expected_len == cmd'.expected_reply_bits
    IN  IF cmd'.payload_bits < 0
        THEN {[lost |-> FALSE, flips |-> {}]}
        ELSE UNION {
               {[lost |-> l, flips |-> f] :
                  f \in IF ~l /\ BaseStatus(responding) # "IDLE"
                            /\ expected_len > 0
                        THEN FlipDraws(expected_len) ELSE {{}}} :
               l \in LossDraws}

\* The rest of the loop body after the protocol call, for the draws lost
\* and flips: the sentinel check, the responders, the slot and its result.
SlotOutcome(lost, flips) ==
    IF cmd'.payload_bits < 0
    THEN /\ pc' = "returned"
         /\ UNCHANGED <<total_slots, idle_slots, success_slots,
                        collision_slots, total_time_us,
                        total_reader_energy_j, prev_result>>
    ELSE LET responding == present_tags \cap cmd'.response_protocol
             status0 == BaseStatus(responding)
             expected_len == cmd'.expected_reply_bits
             raises == /\ ~lost /\ status0 # "IDLE" /\ expected_len > 0
                       /\ StructuralDamage
             \* what the iteration adds to total_time_us: the downlink, and
             \* the uplink unless the NameError is raised before it
             elapsed == ReaderTxTime(cmd')
                        + IF raises THEN 0
                          ELSE StepDuration(IF lost THEN "IDLE" ELSE status0,
                                            cmd')
         IN  /\ total_slots' = total_slots + 1
             /\ total_time_us' = total_time_us + elapsed
             /\ total_reader_energy_j' =
                   total_reader_energy_j + elapsed * P_TX_READER
             /\ idle_slots' = idle_slots + (IF status0 = "IDLE" THEN 1 ELSE 0)
             /\ success_slots' =
                   success_slots + (IF status0 = "SUCCESS" THEN 1 ELSE 0)
             /\ collision_slots' = collision_slots + CollisionCount(responding)
             /\ IF lost
                THEN /\ prev_result' =
                          [status |-> "IDLE", tag_ids |-> responding,
                           resolved_data |-> BaseResolved(responding),
                           channel_noise_mask |-> {},
                           extra_info |-> NoneVal]
                     /\ pc' = "loop"
                ELSE IF status0 # "IDLE" /\ expected_len > 0
                THEN IF StructuralDamage
                     THEN \* 'supports_phy' is not defined: NameError
                          /\ pc' = "raised"
                          /\ UNCHANGED prev_result
                     ELSE /\ prev_result' =
                               [status |-> status0,
                                tag_ids |-> responding,
                                resolved_data |-> BaseResolved(responding),
                                channel_noise_mask |->
                                    flips \cup DriftBits(expected_len),
                                extra_info |-> NoneVal]
                          /\ pc' = "loop"
                ELSE /\ prev_result' =
                          [status |-> status0, tag_ids |-> responding,
                           resolved_data |-> BaseResolved(responding),
                           channel_noise_mask |-> {},
                           extra_info |-> NoneVal]
                     /\ pc' = "loop"

\* The loop body up to the protocol call.
LoopEntry ==
    /\ pc = "loop"
    /\ ~Finished
    /\ ~OverLimit(total_slots)
    /\ ProtocolCall(prev_result)
    /\ UNCHANGED <<config, present_tags, rssi_map, breaker, algorithm,
                   seed_call>>

\* One pass of the loop body: the protocol call, then the slot.
KernelIteration ==
    /\ LoopEntry
    /\ \E d \in SlotDraws : SlotOutcome(d.lost, d.flips)
    /\ UNCHANGED replay_vars

\* ------------------------------------------------------------ scenarios
\* SimulationConfig(): rates in percent, the drift rate in thousandths.
DefaultConfig ==
    [ENABLE_NOISE |-> FALSE, packet_error_rate |-> 0, BIT_ERROR_RATE |-> 0,
     ENABLE_CAPTURE_EFFECT |-> FALSE, CAPTURE_RATIO_DB |-> 3,
     CLOCK_DRIFT_RATE |-> 0, BURST_ERASURE_LEN |-> 0, JITTER_OFFSET |-> 0,
     GUARD_INTERVAL_BITS |-> 0]

\* Run_Test.py, env_type "Noisy": noise on, 10% packet loss.
NoisyConfig ==
    [DefaultConfig EXCEPT !.ENABLE_NOISE = TRUE, !.packet_error_rate = 10]
\* Packet loss and bit errors together.
LossyBitErrorConfig == [NoisyConfig EXCEPT !.BIT_ERROR_RATE = 5]
DriftConfig == [DefaultConfig EXCEPT !.CLOCK_DRIFT_RATE = 125]
\* A drift rate of 0.15, whose coherence limit 0.5 / 0.15 is not whole.
SteepDriftConfig == [DefaultConfig EXCEPT !.CLOCK_DRIFT_RATE = 150]
\* Run_Test.py, env_type "Capture".
CaptureConfig == [DefaultConfig EXCEPT !.ENABLE_CAPTURE_EFFECT = TRUE]
BurstConfig == [DefaultConfig EXCEPT !.BURST_ERASURE_LEN = 2]
JitterConfig == [DefaultConfig EXCEPT !.JITTER_OFFSET = 1]

\* LODS_MTI_Algorithm(): the defaults, and the variations the experiments use.
DefaultParams ==
    [max_group_size |-> 128, target_rho |-> 4, is_adaptive |-> TRUE,
     max_payload_bit |-> 256]
EngineParams ==
    { DefaultParams,
      [DefaultParams EXCEPT !.max_group_size = 2],
      [DefaultParams EXCEPT !.max_payload_bit = 8],
      [DefaultParams EXCEPT !.max_payload_bit = 3],
      [DefaultParams EXCEPT !.is_adaptive = FALSE, !.target_rho = 2],
      [DefaultParams EXCEPT !.is_adaptive = FALSE, !.target_rho = 3] }

\* LODS_MTI_Algorithm(is_adaptive=True, target_rho=init_rho), init_rho 2 or 4.
MicroDynamicParams ==
    { [DefaultParams EXCEPT !.target_rho = RHO_FAST],
      [DefaultParams EXCEPT !.target_rho = RHO_ROBUST] }

Scenarios ==
    {[algorithm |-> "LODS", params |-> p, config |-> DefaultConfig,
      max_tags |-> MaxCleanTags] : p \in EngineParams}
    \cup {[algorithm |-> "LODS", params |-> DefaultParams, config |-> c,
           max_tags |-> MaxTags] :
            c \in {NoisyConfig, DriftConfig, SteepDriftConfig, BurstConfig,
                   JitterConfig}}
    \cup {[algorithm |-> "LODS", params |-> DefaultParams, config |-> c,
           max_tags |-> MaxNoisyTags] :
            c \in {LossyBitErrorConfig, CaptureConfig}}
    \cup {[algorithm |-> "ANY", params |-> DefaultParams, config |-> c,
           max_tags |-> 1] : c \in {DefaultConfig, CaptureConfig}}

Populations(n) == {S \in SUBSET (0..MaxEpcInt) : Cardinality(S) <= n}

\* Tag.rssi = random.uniform(-80, -40); read only under the capture effect.
RssiLevels == {-50, -48, -45}
RssiMaps(c, P) ==
    IF c.ENABLE_CAPTURE_EFFECT THEN [P -> RssiLevels] ELSE {[e \in P |-> -60]}

NoGroup == EmptyGroup
NoVerification == <<>>
NotReinitialized == [from |-> "never", rho |-> 0]
NoFirstRun == [done |-> FALSE]
NoSeedCall == [returned |-> FALSE]

\* The engine is constructed and initialized with the expected tags, and
\* run_high_fidelity_simulation is entered with the same tag list.
KernelInit(sc, S) ==
    \E P \in SUBSET S :
    \E rs \in RssiMaps(sc.config, P) :
        /\ algorithm = sc.algorithm
        /\ Initialized(sc.params, S)
        /\ config = sc.config
        /\ present_tags = P
        /\ rssi_map = rs
        /\ total_slots = 0
        /\ idle_slots = 0
        /\ success_slots = 0
        /\ collision_slots = 0
        /\ total_time_us = 0
        /\ total_reader_energy_j = 0
        /\ prev_result = IdleResult
        /\ pc = "loop"
        /\ breaker = FALSE
        /\ any_finished = FALSE
        /\ any_results = [present |-> {}, missing |-> {}]
        /\ cmd = SentinelCommand
        /\ calls = 0
        /\ group = NoGroup
        /\ verified_group = NoVerification
        /\ reinitialized = NotReinitialized
        /\ draws = <<>>
        /\ trace = <<>>
        /\ first_run = NoFirstRun
        /\ seed_call = NoSeedCall

\* Every scenario, with every population up to its size.
Init ==
    \E sc \in Scenarios :
    \E S \in Populations(sc.max_tags) : KernelInit(sc, S)

Next == KernelExit \/ KernelBreaker \/ KernelIteration

Spec == Init /\ [][Next]_vars

\* ------------------------------------------------ the kernel, run to its end
\* The loop is sequential code: as long as an iteration, the exit or the
\* breaker can be taken, one of them is (every protocol call returns).
\* Whether the loop ends does not depend on which EPCs the tags carry, nor
\* on the bit-error draws, which change the noise mask of a result only: the
\* populations are the first n EPCs, any of them present, under every
\* configuration without bit errors.
InitLive ==
    \E sc \in {x \in Scenarios : x.config.BIT_ERROR_RATE = 0} :
    \E S \in {0..(n - 1) : n \in 0..Min(MaxReinitTags, sc.max_tags)} :
        KernelInit(sc, S)

SpecLive == InitLive /\ [][Next]_vars /\ WF_vars(Next)

\* ------------------------------------------------- the engine on its own
\* The SlotResults a caller may hand to get_next_command: an idle slot (no
\* responder, or all of them lost), a success of any one tag, a collision
\* of any tags, each with any noise pattern on the first sub-field of robust
\* width.  With no pending context the call does not read its argument, and
\* two results stand for all.
ArbitraryResults ==
    [status : {"IDLE"}, tag_ids : {{}, expected_tags}, resolved_data : {{}},
     channel_noise_mask : SUBSET (0..(RHO_ROBUST - 1)), extra_info : {NoneVal}]
    \cup
    [status : {"SUCCESS"}, tag_ids : {{e} : e \in expected_tags},
     resolved_data : {{}},
     channel_noise_mask : SUBSET (0..(RHO_ROBUST - 1)), extra_info : {NoneVal}]
    \cup
    [status : {"COLLISION"}, tag_ids : SUBSET expected_tags,
     resolved_data : {{}},
     channel_noise_mask : SUBSET (0..(RHO_ROBUST - 1)), extra_info : {NoneVal}]

ResultsToTry ==
    IF last_sent_context = <<>>
    THEN {IdleResult,
          [IdleResult EXCEPT !.status = "COLLISION", !.tag_ids = expected_tags,
                             !.channel_noise_mask = 0..(RHO_ROBUST - 1)]}
    ELSE ArbitraryResults

InitEngine ==
    \E p \in EngineParams \cup MicroDynamicParams :
    \E S \in Populations(MaxNoisyTags) :
        /\ algorithm = "LODS"
        /\ Initialized(p, S)
        /\ config = DefaultConfig
        /\ present_tags = {}
        /\ rssi_map = <<>>
        /\ total_slots = 0
        /\ idle_slots = 0
        /\ success_slots = 0
        /\ collision_slots = 0
        /\ total_time_us = 0
        /\ total_reader_energy_j = 0
        /\ prev_result = IdleResult
        /\ pc = "engine"
        /\ breaker = FALSE
        /\ any_finished = FALSE
        /\ any_results = [present |-> {}, missing |-> {}]
        /\ cmd = SentinelCommand
        /\ calls = 0
        /\ group = NoGroup
        /\ verified_group = NoVerification
        /\ reinitialized = NotReinitialized
        /\ draws = <<>>
        /\ trace = <<>>
        /\ first_run = NoFirstRun
        /\ seed_call = NoSeedCall

\* get_next_command called directly, finished or not.
EngineCall ==
    /\ pc = "engine"
    /\ calls < MaxCalls
    /\ \E r \in ResultsToTry : GetNextCommand(r)
    /\ UNCHANGED <<kernel_vars, algorithm, any_vars, replay_vars, seed_call>>

NextEngine == EngineCall

SpecEngine == InitEngine /\ [][NextEngine]_vars

\* ------------------------------------------------- a run and its repetition
\* The same tag list, SimulationConfig and engine are run twice; the second
\* run is given the random values the first run drew, in the same order.
InitReplay ==
    /\ Init
    /\ algorithm = "LODS"
    /\ Cardinality(expected_tags) <=
          IF config.BIT_ERROR_RATE > 0 THEN MaxReinitTags ELSE MaxNoisyTags

\* The command and the slot result of the iteration just made.
TraceEntry == [cmd |-> cmd', result |-> prev_result', pc |-> pc']

\* An iteration of the first run; its draws are recorded.
FirstRunIteration ==
    /\ ~first_run.done
    /\ LoopEntry
    /\ \E d \in SlotDraws :
          /\ SlotOutcome(d.lost, d.flips)
          /\ draws' = Append(draws, d)
    /\ trace' = Append(trace, TraceEntry)
    /\ UNCHANGED first_run

\* The first run is over: what it did and returned is kept, the engine is
\* initialized with the same tags and the kernel is entered again.
RunAgain ==
    /\ ~first_run.done
    /\ pc \in {"returned", "raised"}
    /\ first_run' =
          [done |-> TRUE, trace |-> trace, draws |-> draws, pc |-> pc,
           stats |-> <<total_slots, idle_slots, success_slots, collision_slots>>,
           time |-> total_time_us, energy |-> total_reader_energy_j,
           present |-> verified_present, missing |-> verified_missing]
    /\ Initialize(expected_tags)
    /\ total_slots' = 0
    /\ idle_slots' = 0
    /\ success_slots' = 0
    /\ collision_slots' = 0
    /\ total_time_us' = 0
    /\ total_reader_energy_j' = 0
    /\ prev_result' = IdleResult
    /\ pc' = "loop"
    /\ breaker' = FALSE
    /\ trace' = <<>>
    /\ UNCHANGED <<draws, present_tags, algorithm, any_vars, seed_call>>

\* The second run is made under the SimulationConfig and with the tags of the
\* first.
SecondRunStart == RunAgain /\ UNCHANGED <<config, rssi_map>>

\* An iteration of the second run, fed the next recorded draws.
SecondRunIteration ==
    /\ first_run.done
    /\ draws # <<>>
    /\ LoopEntry
    /\ SlotOutcome(Head(draws).lost, Head(draws).flips)
    /\ draws' = Tail(draws)
    /\ trace' = Append(trace, TraceEntry)
    /\ UNCHANGED first_run

NextReplay ==
    \/ FirstRunIteration
    \/ SecondRunStart
    \/ SecondRunIteration
    \/ KernelBreaker

SpecReplay == InitReplay /\ [][NextReplay]_vars

\* ------------------------------------------ the seed search on its own
MaxSubSlots == 8

\* The groups get_next_command hands to _find_perfect_seed: the integers of
\* consecutive entries of sorted_tags_bin, distinct and ascending.
SeedGroups ==
    {SortByBin(S) : S \in {T \in SUBSET (0..MaxEpcInt) :
                              Cardinality(T) \in 1..MaxCleanTags}}

\* An engine with no tags, about to be asked for a seed.
InitSeed ==
    \E epc_ints \in SeedGroups :
    \E mod_size \in 1..MaxSubSlots :
        /\ algorithm = "LODS"
        /\ Initialized(DefaultParams, {})
        /\ config = DefaultConfig
        /\ present_tags = {}
        /\ rssi_map = <<>>
        /\ total_slots = 0
        /\ idle_slots = 0
        /\ success_slots = 0
        /\ collision_slots = 0
        /\ total_time_us = 0
        /\ total_reader_energy_j = 0
        /\ prev_result = IdleResult
        /\ pc = "engine"
        /\ breaker = FALSE
        /\ any_finished = FALSE
        /\ any_results = [present |-> {}, missing |-> {}]
        /\ cmd = SentinelCommand
        /\ calls = 0
        /\ group = NoGroup
        /\ verified_group = NoVerification
        /\ reinitialized = NotReinitialized
        /\ draws = <<>>
        /\ trace = <<>>
        /\ first_run = NoFirstRun
        /\ seed_call = [returned |-> FALSE, epc_ints |-> epc_ints,
                        mod_size |-> mod_size]

\* seed = self._find_perfect_seed(epc_ints, mod_size)
SeedCall ==
    /\ ~seed_call.returned
    /\ "epc_ints" \in DOMAIN seed_call
    /\ seed_call' =
          [returned |-> TRUE, epc_ints |-> seed_call.epc_ints,
           mod_size |-> seed_call.mod_size,
           seed |-> FindPerfectSeed(seed_call.epc_ints, seed_call.mod_size)]
    /\ UNCHANGED <<engine_vars, kernel_vars, algorithm, any_vars, hist_vars,
                   replay_vars>>

NextSeed == SeedCall

SpecSeed == InitSeed /\ [][NextSeed]_vars

\* ------------------------------- a run and its repetition, capture changed
\* The flagship engine is run twice on the same tags and the same random
\* values: first without the capture effect, then with any setting of
\* ENABLE_CAPTURE_EFFECT and CAPTURE_RATIO_DB and any rssi of the tags.  The
\* random values are the packet-loss draws; configurations with bit errors
\* are left to SpecReplay.
InitCapture ==
    \E sc \in {x \in Scenarios : /\ x.algorithm = "LODS"
                                  /\ x.params.max_group_size = 128
                                  /\ x.params.is_adaptive
                                  /\ ~x.config.ENABLE_CAPTURE_EFFECT
                                  /\ x.config.BIT_ERROR_RATE = 0} :
    \E S \in Populations(Min(sc.max_tags, MaxNoisyTags)) : KernelInit(sc, S)

\* CAPTURE_RATIO_DB of the second run: the default 3.0 and a smaller margin.
CaptureRatios == {2, 3}

\* The second run is made with the capture settings and signal strengths
\* changed, everything else as in the first.
CaptureRunStart ==
    /\ RunAgain
    /\ \E enabled \in BOOLEAN :
       \E ratio \in IF enabled THEN CaptureRatios ELSE {config.CAPTURE_RATIO_DB} :
          /\ config' = [config EXCEPT !.ENABLE_CAPTURE_EFFECT = enabled,
                                       !.CAPTURE_RATIO_DB = ratio]
          /\ rssi_map' \in RssiMaps(config', present_tags)

NextCapture ==
    \/ FirstRunIteration
    \/ CaptureRunStart
    \/ SecondRunIteration
    \/ KernelBreaker

SpecCapture == InitCapture /\ [][NextCapture]_vars

\* --------------------------------------- the engine, initialized again
InitReinit == InitEngine /\ Cardinality(expected_tags) <= MaxReinitTags

\* initialize called again with any population, once per run of the model.
EngineInitialize ==
    /\ pc = "engine"
    /\ reinitialized = NotReinitialized
    /\ \E S \in Populations(MaxReinitTags) : Initialize(S)
    /\ UNCHANGED <<kernel_vars, algorithm, any_vars, replay_vars, seed_call>>

NextReinit == EngineCall \/ EngineInitialize

SpecReinit == InitReinit /\ [][NextReinit]_vars

\* ================================================================ properties
\* C1: when a kernel-driven run of LODS_MTI_Algorithm has reached
\* is_finished(), whatever the population, the presence assignment and the
\* channel did, verified_present and verified_missing are disjoint and their
\* union is the set of expected identifiers.
C1_PartitionAtCompletion ==
    (algorithm = "LODS" /\ pc # "engine" /\ IsFinished)
        => /\ verified_present \cap verified_missing = {}
           /\ verified_present \cup verified_missing = expected_tags

\* A finished run over a lossy channel that confirmed some tag present and
\* reported a present tag missing.
C1_Witness ==
    /\ algorithm = "LODS" /\ pc = "returned" /\ IsFinished
    /\ config.ENABLE_NOISE
    /\ verified_present # {}
    /\ verified_missing \cap present_tags # {}

\* C2: with packet loss, bit errors, drift, burst erasure and jitter all
\* off, a finished run has verified_present equal to the expected tags that
\* are physically present and verified_missing equal to the absent ones.
C2_ExactWithoutImpairments ==
    ( /\ algorithm = "LODS" /\ pc # "engine" /\ IsFinished
      /\ ~(config.ENABLE_NOISE
             /\ (config.packet_error_rate > 0 \/ config.BIT_ERROR_RATE > 0))
      /\ config.CLOCK_DRIFT_RATE = 0
      /\ config.BURST_ERASURE_LEN = 0
      /\ config.JITTER_OFFSET = 0 )
        => /\ verified_present = expected_tags \cap present_tags
           /\ verified_missing = expected_tags \ present_tags

\* A finished run over the default channel whose last group held several
\* tags, some present and some absent.
C2_Witness ==
    /\ algorithm = "LODS" /\ pc = "returned" /\ IsFinished
    /\ config = DefaultConfig
    /\ group.k >= 2
    /\ verified_present # {}
    /\ verified_missing # {}
    /\ \E i, j \in DOMAIN verified_group :
          /\ verified_group[i].responded
          /\ ~verified_group[j].responded

\* C3: in every state of the engine after initialize, whatever slot results
\* get_next_command was fed and whether or not it has finished, no tag is in
\* both verified_present and verified_missing.
C3_NeverInBoth == verified_present \cap verified_missing = {}

\* The engine was called again after it finished, with tags in both sets.
C3_Witness ==
    /\ pc = "engine" /\ IsFinished
    /\ calls > total_tags + 1
    /\ verified_present # {}
    /\ verified_missing # {}

\* C4: every scheduling step of a kernel-driven run ends with a group of at
\* least one tag whose sub-slots are pairwise distinct and moves the cursor
\* past it, so the run is finished after at most total_tags + 1 calls.
C4_SchedulingProgress ==
    (algorithm = "LODS" /\ pc # "engine")
        => /\ (calls > 0 /\ cmd.payload_bits >= 0)
                 => /\ group.k >= 1
                    /\ Len(last_sent_context) = group.k
                    /\ \A i, j \in DOMAIN last_sent_context :
                          i # j => last_sent_context[i].slot
                                     # last_sent_context[j].slot
                    /\ cursor >= calls
           /\ calls <= total_tags + 1

\* C5: in a group verified at rho = 4, a tag with one flipped bit in its
\* sub-field gets the verdict it would get without the flip, and a tag that
\* responded and had two bits of its sub-field flipped is confirmed missing.
C5_MajorityVote ==
    \A i \in DOMAIN verified_group :
        LET v == verified_group[i]
        IN  v.rho = 4 =>
              /\ v.flips = 1 =>
                    /\ v.epc \in verified_present <=> v.responded
                    /\ v.epc \in verified_missing <=> ~v.responded
              /\ (v.flips = 2 /\ v.responded) =>
                    /\ v.epc \in verified_missing
                    /\ v.epc \notin verified_present

\* A tag that responded at rho = 4, lost two bits of its sub-field and was
\* confirmed missing.
C5_Witness ==
    /\ pc = "engine"
    /\ \E i \in DOMAIN verified_group :
          /\ verified_group[i].rho = 4
          /\ verified_group[i].flips = 2
          /\ verified_group[i].responded
          /\ verified_group[i].epc \in verified_missing

C7_NoisyExact ==
    (algorithm = "LODS" /\ config = NoisyConfig /\ IsFinished)
        => /\ verified_missing \cap present_tags = {}
           /\ (expected_tags \ present_tags) \subseteq verified_missing

\* C8: when the slot count passes MAX_SLOTS_LIMIT before the protocol has
\* finished, run_high_fidelity_simulation does not return as a normal run
\* does.
C8_BreakerIsFatal == breaker => pc # "returned"

\* C9: run_high_fidelity_simulation returns only if the finished protocol's
\* present and missing sets partition the expected population.
C9_NonPartitionIsFatal ==
    (pc = "returned" /\ Finished)
        => /\ Results.present \cap Results.missing = {}
           /\ Results.present \cup Results.missing = expected_tags

\* C10: no kernel-driven run raises an exception, under any SimulationConfig.
C10_NoException == pc # "raised"

\* C11: with burst erasure or jitter configured, a slot that has responders
\* and is not lost is handed to a protocol that does not declare
\* supports_phy_impairments (LODS_MTI_Algorithm inherits False) as IDLE with
\* no resolved data.
C11_StructuralDamageToIdle ==
    [][ ( /\ algorithm = "LODS"
          /\ StructuralDamage
          /\ ~config.ENABLE_NOISE
          /\ total_slots' = total_slots + 1
          /\ present_tags \cap cmd'.response_protocol # {} )
        => ( /\ pc' = "loop"
             /\ prev_result'.status = "IDLE"
             /\ prev_result'.resolved_data = {} ) ]_vars

\* C12: an engine on which initialize was called again, whatever state it
\* was in, is in the state of a newly constructed engine initialized with
\* the same tags.
C12_InitializeResets ==
    (reinitialized # NotReinitialized /\ calls = 0)
        => Initialized(params, expected_tags)

\* initialize was called on a finished adaptive engine whose redundancy had
\* moved to the fast width.
C12_Witness ==
    /\ reinitialized = [from |-> "finished", rho |-> 2]
    /\ calls = 0
    /\ params.is_adaptive
    /\ expected_tags # {}

\* C13: with no capture effect and no packet loss, the slot handed to the
\* protocol lists exactly the physically present tags that satisfy the
\* command's predicate, and is IDLE iff there is none, SUCCESS resolved to
\* the tag iff there is one, COLLISION iff there are two or more; in every
\* configuration only present tags are listed as responders.
C13_BaseClassification ==
    (pc = "loop" /\ total_slots > 0)
        => LET resp == present_tags \cap cmd.response_protocol
               n == Cardinality(resp)
           IN  /\ prev_result.tag_ids \subseteq present_tags
               /\ ( /\ ~config.ENABLE_CAPTURE_EFFECT
                    /\ ~(config.ENABLE_NOISE /\ config.packet_error_rate > 0) )
                    => /\ prev_result.tag_ids = resp
                       /\ prev_result.status = "IDLE" <=> n = 0
                       /\ prev_result.status = "SUCCESS" <=> n = 1
                       /\ prev_result.status = "COLLISION" <=> n >= 2
                       /\ n = 1 => prev_result.resolved_data = resp

\* A collision of two or more present tags in a group that also holds an
\* absent tag.
C13_Witness ==
    /\ pc = "loop" /\ total_slots > 0
    /\ config = DefaultConfig
    /\ prev_result.status = "COLLISION"
    /\ Cardinality(prev_result.tag_ids) >= 2
    /\ (cmd.response_protocol \cap expected_tags) \ present_tags # {}

\* C14 as stated: with the capture effect on, a slot with two or more
\* responders is SUCCESS iff the strongest responder's signal strength minus
\* the second-strongest exceeds CAPTURE_RATIO_DB.
C14_CaptureIffExceeds ==
    ( /\ pc = "loop" /\ total_slots > 0
      /\ config.ENABLE_CAPTURE_EFFECT
      /\ ~(config.ENABLE_NOISE /\ config.packet_error_rate > 0)
      /\ Cardinality(prev_result.tag_ids) >= 2 )
        => ( prev_result.status = "SUCCESS"
             <=> \E e \in prev_result.tag_ids :
                   \A f \in prev_result.tag_ids \ {e} :
                       rssi_map[e] - rssi_map[f] > config.CAPTURE_RATIO_DB )

\* C14, amended: with the capture effect on, a slot with two or more
\* responders is SUCCESS, resolved to the strongest responder, iff the
\* strongest responder's signal strength minus the second-strongest is at
\* least CAPTURE_RATIO_DB, and COLLISION otherwise; with the capture effect
\* off a slot with two or more responders is never SUCCESS.
C14_CaptureIffAtLeast ==
    ( /\ pc = "loop" /\ total_slots > 0
      /\ ~(config.ENABLE_NOISE /\ config.packet_error_rate > 0)
      /\ Cardinality(prev_result.tag_ids) >= 2 )
        => LET resp == prev_result.tag_ids
               Dominant(e) == \A f \in resp \ {e} :
                   rssi_map[e] - rssi_map[f] >= config.CAPTURE_RATIO_DB
           IN  IF config.ENABLE_CAPTURE_EFFECT
               THEN /\ prev_result.status = "SUCCESS"
                         <=> \E e \in resp : Dominant(e)
                    /\ prev_result.status = "SUCCESS"
                         => \E e \in resp :
                              /\ Dominant(e)
                              /\ prev_result.resolved_data = {e}
                    /\ prev_result.status \in {"SUCCESS", "COLLISION"}
               ELSE prev_result.status = "COLLISION"

\* A slot with two responders whose margin is exactly CAPTURE_RATIO_DB,
\* reported SUCCESS.
C14_Witness ==
    /\ pc = "loop" /\ total_slots > 0
    /\ config.ENABLE_CAPTURE_EFFECT
    /\ Cardinality(prev_result.tag_ids) >= 2
    /\ prev_result.status = "SUCCESS"
    /\ \E e, f \in prev_result.tag_ids :
          rssi_map[e] - rssi_map[f] = config.CAPTURE_RATIO_DB

\* C15: a slot reported IDLE, whether it had no responder or was lost with
\* any number of responders, carries noise mask 0 and no impairment
\* metadata; a slot with a non-empty noise mask is neither idle nor lost,
\* and its noise lies within the declared reply length.
C15_LossBeforeOtherImpairments ==
    (pc = "loop" /\ total_slots > 0)
        => /\ prev_result.status = "IDLE"
                => /\ prev_result.channel_noise_mask = {}
                   /\ prev_result.extra_info = NoneVal
           /\ prev_result.channel_noise_mask # {}
                => /\ prev_result.status # "IDLE"
                   /\ prev_result.tag_ids # {}
           /\ prev_result.channel_noise_mask
                \subseteq 0..(cmd.expected_reply_bits - 1)

\* A lost slot of two or more responders on a channel that also flips bits.
C15_Witness ==
    /\ pc = "loop" /\ total_slots > 0
    /\ config.ENABLE_NOISE
    /\ config.packet_error_rate > 0
    /\ config.BIT_ERROR_RATE > 0
    /\ prev_result.status = "IDLE"
    /\ Cardinality(prev_result.tag_ids) >= 2
    /\ prev_result.channel_noise_mask = {}

\* C16: with a drift rate > 0 (in thousandths), in a slot that has
\* responders and is not lost every reply bit position from
\* floor(0.5 / rate) up to the reply length is set in the noise mask, and
\* without bit errors no lower position is; a reply of L bits with
\* L * rate <= 0.5 is not corrupted.
C16_DriftBeyondCoherenceLimit ==
    ( /\ pc = "loop" /\ total_slots > 0
      /\ config.CLOCK_DRIFT_RATE > 0
      /\ prev_result.tag_ids # {}
      /\ prev_result.status # "IDLE" )
        => LET limit == 500 \div config.CLOCK_DRIFT_RATE
               L == cmd.expected_reply_bits
               errors == config.ENABLE_NOISE /\ config.BIT_ERROR_RATE > 0
           IN  /\ \A i \in 0..(L - 1) :
                     i >= limit => i \in prev_result.channel_noise_mask
               /\ ~errors => \A i \in prev_result.channel_noise_mask : i >= limit
               /\ (~errors /\ L * config.CLOCK_DRIFT_RATE <= 500)
                     => prev_result.channel_noise_mask = {}

\* A reply of eight or more bits at drift rate 0.15: bit 3 and all above it
\* are corrupted, bits 0..2 are not.
C16_Witness ==
    /\ pc = "loop" /\ total_slots > 0
    /\ config.CLOCK_DRIFT_RATE = 150
    /\ prev_result.status # "IDLE"
    /\ cmd.expected_reply_bits >= 8
    /\ prev_result.channel_noise_mask = 3..(cmd.expected_reply_bits - 1)

\* C17: every slot is counted by the outcome handed to the protocol: a slot
\* whose SlotResult is IDLE, SUCCESS or COLLISION adds one to idle_slots,
\* success_slots or collision_slots respectively and leaves the other two.
C17_CountersByOutcome ==
    [][ (total_slots' = total_slots + 1 /\ pc' = "loop")
        => /\ idle_slots' = idle_slots
                 + (IF prev_result'.status = "IDLE" THEN 1 ELSE 0)
           /\ success_slots' = success_slots
                 + (IF prev_result'.status = "SUCCESS" THEN 1 ELSE 0)
           /\ collision_slots' = collision_slots
                 + (IF prev_result'.status = "COLLISION" THEN 1 ELSE 0) ]_vars

C19_NoGhostMatches ==
    (algorithm = "LODS" /\ calls > 0 /\ cmd.payload_bits >= 0) =>
        cmd.response_protocol \cap expected_tags
            = {sorted_tags_bin[i] : i \in (cursor - group.k + 1)..cursor}

\* C20: in every scheduled group the sub-slots (tag_value XOR seed) mod
\* number_of_subslots of its tags are pairwise distinct and lie in
\* [0, number_of_subslots), every tag's rho-bit sub-field lies inside the
\* first expected_reply_bits bits of the reply, and the group has between 1
\* and min(max_group_size, reply-length ceiling // rho) tags.
C20_GroupWellFormed ==
    [][(algorithm = "LODS" /\ calls' = calls + 1 /\ cmd'.payload_bits >= 0) =>
          LET ctx == last_sent_context
              received == ReceivedBitmap(ctx, prev_result)
              voted == VotedPresent(ctx, received)
              error_flag == ctx # <<>> /\ ErrorFlag(ctx, received, voted)
              rho == current_rho'
              ceiling == ReplyCeiling(params.max_payload_bit, rho, error_flag)
              sent == last_sent_context'
          IN  /\ Len(sent) = group'.k
              /\ \A i, j \in DOMAIN sent :
                    i # j => sent[i].slot # sent[j].slot
              /\ \A i \in DOMAIN sent :
                    /\ sent[i].slot
                          = SubSlot(sent[i].epc, group'.seed, group'.num_slots)
                    /\ sent[i].slot \in 0..(group'.num_slots - 1)
                    /\ (sent[i].slot + 1) * rho <= cmd'.expected_reply_bits
              /\ group'.k >= 1
              /\ group'.k <= Min(params.max_group_size, ceiling \div rho)
       ]_vars

C23_FourTagScenario ==
    ( /\ algorithm = "LODS" /\ config = DefaultConfig
      /\ total_tags = 4
      /\ sorted_tags_bin[4] \div 4 = sorted_tags_bin[1] \div 4
      /\ Min(params.max_group_size,
             params.max_payload_bit \div ResetRho(params, current_rho)) >= 4 )
        => /\ calls = 1 =>
                /\ group.k = 4
                /\ group.mask = SubSeq(Bin(sorted_tags_bin[1]), 1, EPC_BITS - 2)
                /\ group.num_slots = 4
                /\ group.seed \in 0..(SEED_SPACE - 1)
                /\ Len(last_sent_context) = 4
                /\ \A i \in 1..4 :
                      /\ last_sent_context[i].epc = sorted_tags_bin[i]
                      /\ last_sent_context[i].slot
                            = SubSlot(sorted_tags_bin[i], group.seed, 4)
                /\ {last_sent_context[i].slot : i \in 1..4} = 0..3
                /\ cmd.response_protocol \cap expected_tags = expected_tags
                /\ cursor = 4
           /\ (calls = 2 /\ expected_tags \subseteq present_tags) =>
                /\ verified_present = expected_tags
                /\ verified_missing = {}
                /\ cursor = 4

\* The second call on four present tags that differ in their last two bits
\* only: all four confirmed present out of one group.
C23_Witness ==
    /\ algorithm = "LODS" /\ config = DefaultConfig
    /\ total_tags = 4
    /\ sorted_tags_bin[4] \div 4 = sorted_tags_bin[1] \div 4
    /\ calls = 2
    /\ Len(verified_group) = 4
    /\ \A i \in 1..4 : verified_group[i].responded
    /\ verified_present = expected_tags

\* C24: for every redundancy width the engine can be run with, a tag of the
\* verified group is confirmed present exactly when the set bits in its
\* rho-bit sub-field of the observed pattern are strictly more than half of
\* rho, and confirmed missing otherwise.
C24_StrictMajority ==
    \A i \in DOMAIN verified_group :
        LET v == verified_group[i]
        IN  /\ v.epc \in verified_present <=> 2 * v.match_count > v.rho
            /\ v.epc \in verified_missing <=> 2 * v.match_count <= v.rho

\* C25: the reply-length ceiling used to schedule a group is half of
\* max_payload_bit when the group verified just before was transmitted at
\* rho = 4 and had a tag confirmed present on fewer than rho set bits, and
\* the full max_payload_bit otherwise.
C25_CeilingHalvedUnderStress ==
    (algorithm = "LODS" /\ calls > 0 /\ cmd.payload_bits >= 0) =>
        LET degraded ==
                \E i \in DOMAIN verified_group :
                    /\ verified_group[i].rho = 4
                    /\ verified_group[i].epc \in verified_present
                    /\ verified_group[i].match_count < 4
        IN  group.ceiling = IF degraded
                            THEN params.max_payload_bit \div 2
                            ELSE params.max_payload_bit

\* C26: every get_next_command call verifies the group scheduled by the call
\* before it and no other: each tag of the pending context, in no result set
\* until then, is added to exactly one of them, nothing else is added and
\* nothing is ever removed, and the context is replaced by the next group's
\* or by none.  The engine is not finished after a call that scheduled a
\* group, and once a group has been scheduled it turns finished only in the
\* call that verifies the last one.
C26_VerifiedOnceOnNextCall ==
    [][calls' = calls + 1 =>
          LET pending == {last_sent_context[i].epc :
                            i \in DOMAIN last_sent_context}
              fresh == {last_sent_context'[i].epc :
                            i \in DOMAIN last_sent_context'}
              to_present == verified_present' \ verified_present
              to_missing == verified_missing' \ verified_missing
          IN  /\ pending \cap (verified_present \cup verified_missing) = {}
              /\ to_present \cup to_missing = pending
              /\ to_present \cap to_missing = {}
              /\ verified_present \subseteq verified_present'
              /\ verified_missing \subseteq verified_missing'
              /\ fresh \cap pending = {}
              /\ fresh \cap (verified_present' \cup verified_missing') = {}
              /\ fresh # {} => is_running'
              /\ ~is_running' => fresh = {}
              /\ (is_running /\ ~is_running' /\ cursor > 0) =>
                    /\ pending # {}
                    /\ verified_present' \cup verified_missing' = expected_tags
       ]_vars

\* The engine finished in its third call, after two groups of one tag were
\* each verified by the call that followed them.
C26_Witness ==
    /\ pc = "engine" /\ IsFinished
    /\ calls = 3
    /\ total_tags = 2
    /\ Len(verified_group) = 1
    /\ verified_present \cup verified_missing = expected_tags

\* C27: under every configuration a slot without responders yields an IDLE
\* result with noise mask 0 and no impairment data, and the call that
\* verifies a group whose slot had no responder confirms every tag of the
\* group missing and none present.
C27_UnansweredSlotIsSilent ==
    [][/\ (total_slots' = total_slots + 1 /\ pc' = "loop"
             /\ prev_result'.tag_ids = {}) =>
              /\ prev_result'.status = "IDLE"
              /\ prev_result'.channel_noise_mask = {}
              /\ prev_result'.resolved_data = {}
              /\ prev_result'.extra_info = NoneVal
       /\ (algorithm = "LODS" /\ calls' = calls + 1
             /\ prev_result.tag_ids = {}) =>
              \A i \in DOMAIN last_sent_context :
                  /\ last_sent_context[i].epc \in verified_missing'
                  /\ last_sent_context[i].epc \notin verified_present'
      ]_vars

\* Over a channel with bit errors no tag is present: a group was sent, its
\* slot stayed unanswered and its tags were confirmed missing.
C27_Witness ==
    /\ algorithm = "LODS" /\ pc = "loop"
    /\ config.ENABLE_NOISE /\ config.BIT_ERROR_RATE > 0
    /\ present_tags = {}
    /\ verified_group # <<>>
    /\ \A i \in DOMAIN verified_group :
          verified_group[i].epc \in verified_missing
    /\ prev_result.status = "IDLE"

\* C28: with clock drift on, no bit errors and no packet loss, when a group's
\* slot had a responder, every tag of the group whose sub-field starts at or
\* beyond bit floor(0.5 / drift_rate) gets the verdict opposite to the
\* truth: present tags are confirmed missing, missing tags are confirmed
\* present, the latter on all rho bits so that the adaptation step does not
\* count them as imperfect.
C28_DriftInvertsVerdicts ==
    [][( /\ algorithm = "LODS" /\ calls' = calls + 1
         /\ config.CLOCK_DRIFT_RATE > 0
         /\ ~(config.ENABLE_NOISE
                /\ (config.BIT_ERROR_RATE > 0 \/ config.packet_error_rate > 0))
         /\ prev_result.tag_ids # {} ) =>
          \A i \in DOMAIN last_sent_context :
              LET item == last_sent_context[i]
              IN  item.slot * item.rho >= 500 \div config.CLOCK_DRIFT_RATE =>
                    /\ item.epc \in present_tags =>
                          /\ item.epc \in verified_missing'
                          /\ item.epc \notin verified_present'
                          /\ verified_group'[i].match_count = 0
                    /\ item.epc \notin present_tags =>
                          /\ item.epc \in verified_present'
                          /\ item.epc \notin verified_missing'
                          /\ verified_group'[i].match_count = item.rho
      ]_vars

\* Under drift one group held a present tag that was confirmed missing and a
\* missing tag that was confirmed present on all of its bits.
C28_Witness ==
    /\ algorithm = "LODS" /\ config.CLOCK_DRIFT_RATE > 0
    /\ \E i, j \in DOMAIN verified_group :
          /\ verified_group[i].epc \in present_tags \cap verified_missing
          /\ verified_group[i].responded
          /\ verified_group[j].epc \in verified_present \ present_tags
          /\ verified_group[j].match_count = verified_group[j].rho

\* C29 as stated: whatever the constructor parameters and the slot results,
\* once a group has been scheduled current_rho and the rho of every tag of
\* the pending group are 2 or 4.
C29_RhoFastOrRobust ==
    calls > 0 =>
        /\ current_rho \in {2, 4}
        /\ \A i \in DOMAIN last_sent_context :
              last_sent_context[i].rho \in {2, 4}

\* C29, amended: in adaptive mode current_rho and the rho of every tag of
\* the pending group are 2 or 4, whatever target_rho and the slot results;
\* in non-adaptive mode they are the constructor's target_rho, whatever its
\* value, on every group.
C29_RhoFromFixedSetOrTarget ==
    LET allowed == IF params.is_adaptive THEN {RHO_FAST, RHO_ROBUST}
                   ELSE {params.target_rho}
    IN  /\ RHO_FAST = 2 /\ RHO_ROBUST = 4
        /\ current_rho \in allowed
        /\ \A i \in DOMAIN last_sent_context :
              /\ last_sent_context[i].rho \in allowed
              /\ last_sent_context[i].rho = last_sent_context[1].rho
        /\ \A i \in DOMAIN verified_group : verified_group[i].rho \in allowed

\* A non-adaptive engine built with target_rho = 3 that confirmed a tag
\* missing and scheduled the next group at width 3 again.
C29_Witness ==
    /\ pc = "engine"
    /\ ~params.is_adaptive /\ params.target_rho = 3
    /\ verified_group # <<>>
    /\ verified_missing # {}
    /\ last_sent_context # <<>>
    /\ last_sent_context[1].rho = 3

\* C30 as stated: for every non-terminal command expected_reply_bits is rho
\* times number_of_subslots, the modulus that assigned the group's
\* sub-slots, for every rho and every group size.
C30_ReplyIsRhoTimesSubslots ==
    (algorithm = "LODS" /\ calls > 0 /\ cmd.payload_bits >= 0) =>
        /\ cmd.expected_reply_bits = current_rho * group.num_slots
        /\ \A i \in DOMAIN last_sent_context :
              last_sent_context[i].slot
                 = Xor(last_sent_context[i].epc, group.seed) % group.num_slots

\* C30, amended: for every non-terminal command the modulus that assigned
\* the group's sub-slots is number_of_subslots; for a group of k >= 1 tags
\* expected_reply_bits is rho * k with k sub-slots when that is at least 4,
\* and 4 with 4 // rho sub-slots when it is less, which is rho times
\* number_of_subslots except for a single tag at rho = 3 (4 bits, one
\* sub-slot); a command without tags declares 0 bits and has 0 sub-slots.
C30_ReplyWithFloorOfFour ==
    (algorithm = "LODS" /\ calls > 0 /\ cmd.payload_bits >= 0) =>
        LET rho == current_rho
            k == group.k
            n == group.num_slots
        IN  /\ Len(last_sent_context) = k
            /\ \A i \in DOMAIN last_sent_context :
                  /\ last_sent_context[i].rho = rho
                  /\ last_sent_context[i].slot
                        = Xor(last_sent_context[i].epc, group.seed) % n
            /\ k = 0 => cmd.expected_reply_bits = 0 /\ n = 0
            /\ (k >= 1 /\ rho * k >= 4) =>
                  cmd.expected_reply_bits = rho * k /\ n = k
            /\ (k >= 1 /\ rho * k < 4) =>
                  cmd.expected_reply_bits = 4 /\ n = 4 \div rho
            /\ cmd.expected_reply_bits # rho * n <=> (rho = 3 /\ k = 1)

\* A non-adaptive engine at rho = 3 sent a single tag: four reply bits for
\* one sub-slot of three.
C30_Witness ==
    /\ algorithm = "LODS" /\ calls > 0 /\ cmd.payload_bits >= 0
    /\ current_rho = 3
    /\ group.k = 1 /\ group.num_slots = 1
    /\ cmd.expected_reply_bits = 4

\* C31: between initialize and the next initialize every get_next_command
\* call leaves verified_present and verified_missing supersets of what they
\* were, no identifier leaves a set or passes from one to the other, and a
\* call made after completion changes neither set.
C31_ResultSetsOnlyGrow ==
    [][calls' = calls + 1 =>
          /\ verified_present \subseteq verified_present'
          /\ verified_missing \subseteq verified_missing'
          /\ verified_present \cap verified_missing' = {}
          /\ verified_missing \cap verified_present' = {}
          /\ ~is_running =>
                /\ verified_present' = verified_present
                /\ verified_missing' = verified_missing
                /\ ~is_running'
      ]_vars

\* The engine was called again after completion, with both sets filled by
\* two separate verifications.
C31_Witness ==
    /\ pc = "engine" /\ IsFinished
    /\ calls > total_tags + 1
    /\ Len(verified_group) = 1
    /\ Cardinality(verified_present) = 1
    /\ Cardinality(verified_missing) = 1

\* C32: _find_perfect_seed called with a group of one tag returns seed 0,
\* whatever the tag and whatever the number of sub-slots (at least 1).
C32_SingletonGetsSeedZero ==
    (seed_call.returned /\ Len(seed_call.epc_ints) = 1) =>
        seed_call.seed = 0

C32_Witness ==
    /\ seed_call.returned
    /\ seed_call.epc_ints = <<5>>
    /\ seed_call.mod_size = 3
    /\ seed_call.seed = 0

\* C37: when the number of sub-slots is a power of two, _find_perfect_seed
\* returns seed 0 or None, and when it returns None the group has two tags
\* in one sub-slot under every seed of 0..15.
C37_PowerOfTwoSeedZeroOrNone ==
    ( /\ seed_call.returned
      /\ \E e \in 0..MaxSubSlots : seed_call.mod_size = 2 ^ e ) =>
        /\ seed_call.seed \in {0, NoSeed}
        /\ seed_call.seed = NoSeed =>
              \A seed \in 0..(SEED_SPACE - 1) :
                  \E i, j \in 1..Len(seed_call.epc_ints) :
                      /\ i < j
                      /\ Xor(seed_call.epc_ints[i], seed) % seed_call.mod_size
                           = Xor(seed_call.epc_ints[j], seed)
                               % seed_call.mod_size

C37_Witness ==
    /\ seed_call.returned
    /\ seed_call.epc_ints = <<1, 5>>
    /\ seed_call.mod_size = 4
    /\ seed_call.seed = NoSeed

\* C33 as stated: the first group an adaptive engine schedules after
\* initialize is sent at the constructor's target_rho, 2 (aggressive start)
\* or 4 (conservative start).
C33_AdaptiveStartsAtTargetRho ==
    ( /\ params.is_adaptive
      /\ params.target_rho \in {RHO_FAST, RHO_ROBUST}
      /\ calls = 1
      /\ last_sent_context # <<>> ) =>
        \A i \in DOMAIN last_sent_context :
            last_sent_context[i].rho = params.target_rho

\* C34: in the kernel loop total_slots is the sum of idle_slots,
\* success_slots and collision_slots; an executed slot adds one to exactly one
\* of the three (a captured collision is counted as a success and not as a
\* collision) and accrues time and reader energy; the iteration whose
\* protocol call returns the completion sentinel changes no counter, no time
\* and no energy.
C34_SlotAccounting ==
    [][ /\ total_slots = idle_slots + success_slots + collision_slots
        /\ total_slots' = idle_slots' + success_slots' + collision_slots'
        /\ total_slots' # total_slots =>
              /\ total_slots' = total_slots + 1
              /\ <<idle_slots', success_slots', collision_slots'>>
                    \in { <<idle_slots + 1, success_slots, collision_slots>>,
                          <<idle_slots, success_slots + 1, collision_slots>>,
                          <<idle_slots, success_slots, collision_slots + 1>> }
              /\ ( /\ prev_result'.status = "SUCCESS"
                   /\ Cardinality(prev_result'.tag_ids) >= 2 ) =>
                     /\ success_slots' = success_slots + 1
                     /\ collision_slots' = collision_slots
              /\ total_time_us' > total_time_us
              /\ total_reader_energy_j' > total_reader_energy_j
        /\ (pc = "loop" /\ calls' = calls + 1 /\ cmd'.payload_bits < 0) =>
              /\ pc' = "returned"
              /\ <<total_slots', idle_slots', success_slots', collision_slots',
                    total_time_us', total_reader_energy_j'>>
                  = <<total_slots, idle_slots, success_slots, collision_slots,
                      total_time_us, total_reader_energy_j>>
      ]_vars

C34_Witness ==
    /\ pc = "returned" /\ ~breaker
    /\ cmd.payload_bits < 0
    /\ prev_result.status = "SUCCESS"
    /\ Cardinality(prev_result.tag_ids) >= 2
    /\ total_slots = 1 /\ success_slots = 1
    /\ total_time_us > 0

\* C35: run_high_fidelity_simulation ends for every protocol, one that never
\* reports completion included; total_slots never exceeds MAX_SLOTS_LIMIT + 1;
\* and when the breaker fires the protocol is not called again, so the result
\* of the last executed slot is never handed to it.
C35_KernelTerminates ==
    /\ <>(pc # "loop")
    /\ [](total_slots <= MAX_SLOTS_LIMIT + 1)
    /\ [][ /\ breaker' =>
                /\ pc' = "returned"
                /\ total_slots' = MAX_SLOTS_LIMIT + 1
                /\ UNCHANGED <<calls, cmd, engine_vars, any_vars, prev_result>>
          /\ pc # "loop" => UNCHANGED vars
        ]_vars

C35_Witness ==
    /\ breaker /\ pc = "returned"
    /\ algorithm = "ANY" /\ ~any_finished
    /\ total_slots = MAX_SLOTS_LIMIT + 1
    /\ prev_result.status = "SUCCESS"
    /\ calls = total_slots

\* C36: a run of the flagship engine with the capture effect set any way and
\* any rssi of the tags, on the tags, configuration and random values of a
\* run without capture, issues the same commands step by step and ends the
\* same way with the same present and missing sets, total_slots, idle_slots,
\* total time and reader energy; success_slots and collision_slots keep
\* their sum.
C36_CaptureIndependent ==
    first_run.done =>
        /\ Len(trace) <= Len(first_run.trace)
        /\ \A i \in 1..Len(trace) :
              /\ trace[i].cmd = first_run.trace[i].cmd
              /\ trace[i].pc = first_run.trace[i].pc
        /\ (pc = "loop" /\ draws = <<>>) => total_slots > MAX_SLOTS_LIMIT
        /\ pc \in {"returned", "raised"} =>
              /\ Len(trace) = Len(first_run.trace)
              /\ draws = <<>>
              /\ pc = first_run.pc
              /\ verified_present = first_run.present
              /\ verified_missing = first_run.missing
              /\ total_slots = first_run.stats[1]
              /\ idle_slots = first_run.stats[2]
              /\ success_slots + collision_slots
                    = first_run.stats[3] + first_run.stats[4]
              /\ total_time_us = first_run.time
              /\ total_reader_energy_j = first_run.energy

\* A second run under capture that ended like the first, in which a packet
\* was lost and a collision of the first run was counted as a success.
C36_Witness ==
    /\ first_run.done
    /\ pc = "returned"
    /\ config.ENABLE_CAPTURE_EFFECT
    /\ Len(trace) >= 2
    /\ success_slots > first_run.stats[3]
    /\ collision_slots < first_run.stats[4]
    /\ \E i \in 1..Len(first_run.draws) : first_run.draws[i].lost
    /\ verified_missing # {}

====
